---- MODULE Spec2Model ----
(***************************************************************************)
(* Model of the Excel converter of src/app.py: the column resolver        *)
(* get_col_by_header_row, the per-cell rules (truncate_half_if_over, the   *)
(* zip rule), and the Process handler that decrypts a workbook, rewrites   *)
(* the 'hawb' and 'mawb' sheets and offers the result for download.        *)
(*                                                                         *)
(* Text is a sequence of one-character strings, so that trimming, case     *)
(* folding, normalisation, parsing and formatting are computed and not     *)
(* assumed.  A cell is a record [t, v]: t is "text", "num" or "nan" (a     *)
(* missing cell, pandas NaN) and v is the cell's text as str() gives it.   *)
(***************************************************************************)
EXTENDS Integers, Sequences, FiniteSets, TLC

VARIABLES
    pc,                 \* position of the Process handler
    err,                \* the error shown to the user, "none" when there is none
    cfg,                \* the fallback indices of the "Advanced" expander
    string_storage,     \* backend of the pandas "string" dtype in this build
    sheet_names,        \* xls.sheet_names
    hawb_raw,           \* the 'hawb' sheet read without header
    cols,               \* bw_col, bx_col, bz_col, coo_col, zip_col
    data_ordered,       \* the data rows after the per-row rules
    drop_col_indices,   \* the column positions the drop step removes
    hawb_out,           \* the reassembled 'hawb' grid
    mawb_in,            \* the 'mawb' sheet as read (header row + data rows)
    df_mawb,            \* the 'mawb' frame after the L2 edit
    out_buf,            \* the bytes offered for download
    fn,                 \* the pure function last applied ("none" before)
    fn_in,              \* its arguments
    fn_out              \* its result

vars == <<pc, err, cfg, string_storage, sheet_names, hawb_raw, cols,
          data_ordered, drop_col_indices, hawb_out, mawb_in, df_mawb,
          out_buf, fn, fn_in, fn_out>>

procVars == <<pc, err, cfg, sheet_names, hawb_raw, cols, data_ordered,
              drop_col_indices, hawb_out, mawb_in, df_mawb, out_buf>>

fnVars == <<fn, fn_in, fn_out>>

----------------------------------------------------------------------------
(* Bounds of the model.                                                    *)

MaxHdr == 2          \* resolver: header cells per header row
MaxCand == 2         \* resolver: candidates per candidate list
MaxFallback == 2     \* resolver: largest fallback index tried
MaxCols == 2         \* handler: columns of an enumerated 'hawb' sheet
MaxDataRows == 1     \* handler: data rows of an enumerated sheet

----------------------------------------------------------------------------
(* Characters and text.                                                    *)

WS == {" ", "\t", "\n"}

DIGITS == <<"0", "1", "2", "3", "4", "5", "6", "7", "8", "9">>

LOWERCASE == <<"a", "b", "c", "d", "e", "f", "g", "h", "i", "j", "k", "l", "m",
               "n", "o", "p", "q", "r", "s", "t", "u", "v", "w", "x", "y", "z">>

UPPERCASE == <<"A", "B", "C", "D", "E", "F", "G", "H", "I", "J", "K", "L", "M",
               "N", "O", "P", "Q", "R", "S", "T", "U", "V", "W", "X", "Y", "Z">>

Range(s) == {s[i] : i \in 1..Len(s)}

DigitSet == Range(DIGITS)

UpperSet == Range(UPPERCASE)

AlnumLowerSet == Range(LOWERCASE) \cup DigitSet

\* str.lower() on the characters it changes
LowerMap ==
    [c \in UpperSet |-> LOWERCASE[CHOOSE i \in 1..Len(UPPERCASE) : UPPERCASE[i] = c]]

IsDigit(c) == c \in DigitSet

DigitVal(c) == (CHOOSE i \in 1..Len(DIGITS) : DIGITS[i] = c) - 1

\* str.lower() on one character
LowerChar(c) == IF c \in UpperSet THEN LowerMap[c] ELSE c

\* str.lower()
Lower(s) == [i \in 1..Len(s) |-> LowerChar(s[i])]

RECURSIVE LStrip(_)
LStrip(s) == IF s = <<>> \/ Head(s) \notin WS THEN s ELSE LStrip(Tail(s))

RECURSIVE RStrip(_)
RStrip(s) ==
    IF s = <<>> \/ s[Len(s)] \notin WS THEN s ELSE RStrip(SubSeq(s, 1, Len(s) - 1))

\* str.strip()
Strip(s) == RStrip(LStrip(s))

IsAlnumLower(c) == c \in AlnumLowerSet

\* norm(s): lowercase + strip, then drop every character outside [a-z0-9]
norm(s) == SelectSeq(Lower(Strip(s)), IsAlnumLower)

\* int("...") of a non-empty string of decimal digits
RECURSIVE ParseInt(_)
ParseInt(ds) ==
    IF ds = <<>> THEN 0
    ELSE 10 * ParseInt(SubSeq(ds, 1, Len(ds) - 1)) + DigitVal(ds[Len(ds)])

\* the decimal text of a natural number, as an f-string formats it
RECURSIVE Decimal(_)
Decimal(n) ==
    IF n < 10 THEN <<DIGITS[n + 1]>> ELSE Decimal(n \div 10) \o <<DIGITS[(n % 10) + 1]>>

\* c * n
Rep(c, n) == [i \in 1..n |-> c]

InSeq(x, s) == \E i \in 1..Len(s) : s[i] = x

----------------------------------------------------------------------------
(* Cells.                                                                  *)

Text(s) == [t |-> "text", v |-> s]

Num(s) == [t |-> "num", v |-> s]

NaN == [t |-> "nan", v |-> <<"n", "a", "n">>]

\* str(x) of a cell value
Str(cell) == cell.v

\* the return value None of the resolver (no column name has this shape)
NoneCol == <<"None">>

\* index_fallback=None
NoFallback == -1

----------------------------------------------------------------------------
(* The column resolver, get_col_by_header_row.                             *)

\* headers = pd.Index([str(x).strip() for x in header_row.values])
Headers(header_row) == [i \in 1..Len(header_row) |-> Strip(Str(header_row[i]))]

\* 1) exact: the first candidate, in candidate order, that is a header
RECURSIVE ExactLoop(_, _)
ExactLoop(candidates, headers) ==
    IF candidates = <<>> THEN NoneCol
    ELSE LET c_trim == Strip(Head(candidates))
         IN  IF InSeq(c_trim, headers) THEN c_trim
             ELSE ExactLoop(Tail(candidates), headers)

\* 2) fuzzy normalized: the first header, in header order, whose norm is a target
RECURSIVE FuzzyLoop(_, _)
FuzzyLoop(headers, targets) ==
    IF headers = <<>> THEN NoneCol
    ELSE IF norm(Head(headers)) \in targets THEN Head(headers)
         ELSE FuzzyLoop(Tail(headers), targets)

UNNAMED_PREFIX == <<"u", "n", "n", "a", "m", "e", "d", ":">>

UNNAMED_LITERAL == <<"U", "n", "n", "a", "m", "e", "d", ":", " ">>

\* the digits group of re.fullmatch(r"unnamed:\s*(\d+)", s), <<>> when no match
UnnamedDigits(s) ==
    LET k == Len(UNNAMED_PREFIX)
    IN  IF Len(s) > k /\ SubSeq(s, 1, k) = UNNAMED_PREFIX
        THEN LET rest == LStrip(SubSeq(s, k + 1, Len(s)))
             IN  IF rest # <<>> /\ \A i \in 1..Len(rest) : IsDigit(rest[i])
                 THEN rest ELSE <<>>
        ELSE <<>>

\* 3) explicit "Unnamed: N", by text or by position N
RECURSIVE UnnamedLoop(_, _)
UnnamedLoop(candidates, headers) ==
    IF candidates = <<>> THEN NoneCol
    ELSE LET m == UnnamedDigits(Lower(Strip(Head(candidates))))
             n == ParseInt(m)
             literal == UNNAMED_LITERAL \o Decimal(n)
         IN  IF m # <<>> /\ InSeq(literal, headers) THEN literal
             ELSE IF m # <<>> /\ 0 <= n /\ n < Len(headers) THEN headers[n + 1]
             ELSE UnnamedLoop(Tail(candidates), headers)

\* 4) raw index fallback
IndexFallback(headers, index_fallback) ==
    IF index_fallback # NoFallback /\ 0 <= index_fallback /\ index_fallback < Len(headers)
    THEN headers[index_fallback + 1]
    ELSE NoneCol

\* a resolver that consults the fallback index before the names
get_col_fallback_first(header_row, candidates, index_fallback) ==
    LET headers == Headers(header_row)
        byIndex == IndexFallback(headers, index_fallback)
        exact == ExactLoop(candidates, headers)
        fuzzy == FuzzyLoop(headers, {norm(c) : c \in Range(candidates)})
    IN  IF byIndex # NoneCol THEN byIndex
        ELSE IF exact # NoneCol THEN exact
        ELSE IF fuzzy # NoneCol THEN fuzzy
        ELSE UnnamedLoop(candidates, headers)

get_col_by_header_row(header_row, candidates, index_fallback) ==
    LET headers == Headers(header_row)
        exact == ExactLoop(candidates, headers)
        fuzzy == FuzzyLoop(headers, {norm(c) : c \in Range(candidates)})
        unnamed == UnnamedLoop(candidates, headers)
    IN  IF exact # NoneCol THEN exact
        ELSE IF fuzzy # NoneCol THEN fuzzy
        ELSE IF unnamed # NoneCol THEN unnamed
        ELSE IndexFallback(headers, index_fallback)

----------------------------------------------------------------------------
(* The per-cell rules.                                                     *)

BW_THRESHOLD == 100

BX_THRESHOLD == 225

BZ_THRESHOLD == 8

ZIP_DIGITS == 6

\* a truncation that already fires at the threshold
truncate_half_if_at_least(s, threshold) ==
    IF s.t = "text" /\ Len(s.v) >= threshold
    THEN Text(SubSeq(s.v, 1, Len(s.v) \div 2))
    ELSE s

\* truncate_half_if_over(s, threshold)
truncate_half_if_over(s, threshold) ==
    IF s.t = "text" /\ Len(s.v) > threshold
    THEN Text(SubSeq(s.v, 1, Len(s.v) \div 2))
    ELSE s

\* Series.astype("string"): text of every value, a missing value stays missing
AsString(cell) == IF cell.t = "nan" THEN NaN ELSE Text(Str(cell))

\* Series.replace(r"^\s*$", pd.NA, regex=True)
BlankToNA(cell) ==
    IF cell.t = "text" /\ \A i \in 1..Len(cell.v) : cell.v[i] \in WS THEN NaN ELSE cell

AllDigits(s) == \A i \in 1..Len(s) : IsDigit(s[i])

\* Series.str.match(r"^\d{6}$", na=False).  With the python backend the
\* pattern runs under re.match, where $ also matches before a final newline;
\* with the pyarrow backend (RE2) $ matches at the end of the text only.
ZipValid(cell, storage) ==
    /\ cell.t = "text"
    /\ \/ Len(cell.v) = ZIP_DIGITS /\ AllDigits(cell.v)
       \/ /\ storage = "python"
          /\ Len(cell.v) = ZIP_DIGITS + 1
          /\ cell.v[Len(cell.v)] = "\n"
          /\ AllDigits(SubSeq(cell.v, 1, ZIP_DIGITS))

ZIP_REPLACEMENT == <<"1", "2", "3", "4", "5", "6">>

\* the zip rule on one cell of the zip column
ZipCell(cell, storage) ==
    LET c == BlankToNA(AsString(cell))
    IN  IF ZipValid(c, storage) THEN c ELSE Text(ZIP_REPLACEMENT)

\* data[coo_col] = "CN"
SetCN(cell) == Text(<<"C", "N">>)

StringStorages == {"python", "pyarrow"}

----------------------------------------------------------------------------
(* The Process handler: configuration and the 'hawb' transformation.       *)

BW_IDX_DEFAULT == 74

BX_IDX_DEFAULT == 75

BZ_IDX_DEFAULT == 77

COO_IDX_DEFAULT == 63

ZIP_IDX_DEFAULT == 78

STATE_IDX_DEFAULT == 23

\* the values of the six number_input widgets when nothing is typed
DefaultCfg ==
    [bw_idx |-> BW_IDX_DEFAULT, bx_idx |-> BX_IDX_DEFAULT, bz_idx |-> BZ_IDX_DEFAULT,
     coo_idx |-> COO_IDX_DEFAULT, zip_idx |-> ZIP_IDX_DEFAULT,
     unnamed_state_idx |-> STATE_IDX_DEFAULT]

MANUFACTURE_NAME == <<"m", "a", "n", "u", "f", "a", "c", "t", "u", "r", "e", "_", "n", "a", "m", "e">>

MANUFACTURE_ADDRESS == <<"m", "a", "n", "u", "f", "a", "c", "t", "u", "r", "e", "_", "a", "d", "d", "r", "e", "s", "s">>

COUNTRY_OF_ORIGIN == <<"c", "o", "u", "n", "t", "r", "y", "_", "o", "f", "_", "o", "r", "i", "g", "i", "n">>

MANUFACTURE_ZIP_CODE == <<"m", "a", "n", "u", "f", "a", "c", "t", "u", "r", "e", "_", "z", "i", "p", "_", "c", "o", "d", "e">>

UnnamedCandidate(n) == UNNAMED_PREFIX \o <<" ">> \o Decimal(n)

STATE_NAME == <<"S", "T", "A", "T", "E">>

BwCandidates == <<MANUFACTURE_NAME, UnnamedCandidate(74)>>

BxCandidates == <<MANUFACTURE_ADDRESS, UnnamedCandidate(75)>>

BzCandidates == <<UnnamedCandidate(77)>>

CooCandidates == <<COUNTRY_OF_ORIGIN, UnnamedCandidate(63)>>

ZipCandidates == <<MANUFACTURE_ZIP_CODE, MANUFACTURE_ZIP_CODE \o <<" ">>, UnnamedCandidate(78)>>

\* bw_col .. zip_col, resolved against the second row
ResolveCols(header_row, c) ==
    [bw_col  |-> get_col_by_header_row(header_row, BwCandidates, c.bw_idx),
     bx_col  |-> get_col_by_header_row(header_row, BxCandidates, c.bx_idx),
     bz_col  |-> get_col_by_header_row(header_row, BzCandidates, c.bz_idx),
     coo_col |-> get_col_by_header_row(header_row, CooCandidates, c.coo_idx),
     zip_col |-> get_col_by_header_row(header_row, ZipCandidates, c.zip_idx)]

NoCols == [bw_col |-> NoneCol, bx_col |-> NoneCol, bz_col |-> NoneCol,
           coo_col |-> NoneCol, zip_col |-> NoneCol]

\* what each of the five per-row rules makes of one cell of its column
RuleCell(rule, x, storage) ==
    CASE rule = "bw"  -> truncate_half_if_over(x, BW_THRESHOLD)
      [] rule = "bx"  -> truncate_half_if_over(x, BX_THRESHOLD)
      [] rule = "bz"  -> truncate_half_if_over(x, BZ_THRESHOLD)
      [] rule = "coo" -> SetCN(x)
      [] rule = "zip" -> ZipCell(x, storage)

\* "if col in data.columns: data[col] = ..."; names are the labels of data's
\* columns, which are unique here
ApplyCol(data, names, col, rule, storage) ==
    IF InSeq(col, names)
    THEN [r \in 1..Len(data) |->
            [j \in 1..Len(names) |->
                IF names[j] = col THEN RuleCell(rule, data[r][j], storage) ELSE data[r][j]]]
    ELSE data

\* the five per-row rules, in the order of the source
ApplyRules(data, names, c, storage) ==
    LET d1 == ApplyCol(data, names, c.bw_col, "bw", storage)
        d2 == ApplyCol(d1, names, c.bx_col, "bx", storage)
        d3 == ApplyCol(d2, names, c.bz_col, "bz", storage)
        d4 == ApplyCol(d3, names, c.coo_col, "coo", storage)
    IN  ApplyCol(d4, names, c.zip_col, "zip", storage)

\* pd.concat raises InvalidIndexError when it must reindex a frame whose
\* column labels repeat; the labels of the first two rows (0..n-1) never
\* equal those of the data (the header names), so it always reindexes
DuplicateLabels(names) ==
    \E i, j \in 1..Len(names) : i # j /\ names[i] = names[j]

\* pd.concat([hawb_raw.iloc[:2], data_ordered], ignore_index=True): rows are
\* stacked and columns are aligned by LABEL; the first frame's labels are the
\* positions 0..n-1 and the second's are the header names, so the result has
\* the n position columns followed by the n name columns, filled with NaN
Concat(head, data, n) ==
    [r \in 1..(Len(head) + Len(data)) |->
        IF r <= Len(head)
        THEN head[r] \o [j \in 1..n |-> NaN]
        ELSE [j \in 1..n |-> NaN] \o data[r - Len(head)]]

\* the positions (0-based) of the drop step, in the order they are appended
RECURSIVE StateIndices(_, _)
StateIndices(ordered_cols, j) ==
    IF j > Len(ordered_cols) THEN <<>>
    ELSE (IF Strip(ordered_cols[j]) = STATE_NAME THEN <<j - 1>> ELSE <<>>)
         \o StateIndices(ordered_cols, j + 1)

DropColIndices(ordered_cols, unnamed_state_idx) ==
    LET byName == StateIndices(ordered_cols, 1)
    IN  IF /\ 0 <= unnamed_state_idx
           /\ unnamed_state_idx < Len(ordered_cols)
           /\ ~InSeq(unnamed_state_idx, byName)
        THEN Append(byName, unnamed_state_idx)
        ELSE byName

\* hawb_out.iloc[:, keep_indices] on one row
KeepRow(row, drop) ==
    LET Kept(j) == ~InSeq(j - 1, drop)
        RECURSIVE Walk(_)
        Walk(j) == IF j > Len(row) THEN <<>>
                   ELSE (IF Kept(j) THEN <<row[j]>> ELSE <<>>) \o Walk(j + 1)
    IN  Walk(1)

DropColumns(grid, drop) ==
    IF drop # <<>> THEN [r \in 1..Len(grid) |-> KeepRow(grid[r], drop)] ELSE grid

\* a row check that asks for the two header rows only
TooFewHeaderRows(grid) == Len(grid) < 2

\* hawb_raw.shape[0] < 3
TooFewRows(grid) == Len(grid) < 3

\* a sheet check that never reports a missing sheet
SheetNeverMissing(name, names) == FALSE

\* "name" not in xls.sheet_names
SheetMissing(name, names) == name \notin names

----------------------------------------------------------------------------
(* The 'mawb' edit.                                                        *)

CONSIGNEE_ID_NUMBER == <<"c", "o", "n", "s", "i", "g", "n", "e", "e", "_", "i", "d", "_", "n", "u", "m", "b", "e", "r">>

L2_VALUE == Text(<<"2", "5", "6", "7", "7", "0", "4">>)

\* pd.read_excel(xls, sheet_name="mawb") and the strip of its column labels
ReadMawb(sheet) ==
    [columns |-> [i \in 1..Len(sheet.columns) |-> Strip(sheet.columns[i])],
     rows    |-> sheet.rows]

\* an edit that writes L2 only where a first data row already exists
SetCellAtExistingRow(df) ==
    IF Len(df.rows) = 0 THEN df
    ELSE IF ~InSeq(CONSIGNEE_ID_NUMBER, df.columns)
    THEN [columns |-> Append(df.columns, CONSIGNEE_ID_NUMBER),
          rows    |-> [r \in 1..Len(df.rows) |->
                        Append(df.rows[r], IF r = 1 THEN L2_VALUE ELSE NaN)]]
    ELSE [columns |-> df.columns,
          rows    |-> [r \in 1..Len(df.rows) |->
                        [j \in 1..Len(df.columns) |->
                           IF r = 1 /\ df.columns[j] = CONSIGNEE_ID_NUMBER
                           THEN L2_VALUE ELSE df.rows[r][j]]]]

\* the four branches that set L2
SetCellAt(df) ==
    IF ~InSeq(CONSIGNEE_ID_NUMBER, df.columns)
    THEN IF Len(df.rows) = 0
         \* df_mawb = pd.DataFrame({"consignee_id_number": ["2567704"]})
         THEN [columns |-> <<CONSIGNEE_ID_NUMBER>>, rows |-> <<<<L2_VALUE>>>>]
         \* df_mawb.loc[0, "consignee_id_number"] = ...: a new column, NaN below row 0
         ELSE [columns |-> Append(df.columns, CONSIGNEE_ID_NUMBER),
               rows    |-> [r \in 1..Len(df.rows) |->
                             Append(df.rows[r], IF r = 1 THEN L2_VALUE ELSE NaN)]]
    ELSE IF Len(df.rows) = 0
         \* df_mawb.loc[0, ...] = ... on an empty frame: a new row, NaN elsewhere
         THEN [columns |-> df.columns,
               rows    |-> <<[j \in 1..Len(df.columns) |->
                               IF df.columns[j] = CONSIGNEE_ID_NUMBER THEN L2_VALUE ELSE NaN]>>]
         \* df_mawb.iloc[0, get_loc(...)] = ...
         ELSE [columns |-> df.columns,
               rows    |-> [r \in 1..Len(df.rows) |->
                             [j \in 1..Len(df.columns) |->
                                IF r = 1 /\ df.columns[j] = CONSIGNEE_ID_NUMBER
                                THEN L2_VALUE ELSE df.rows[r][j]]]]

NoFrame == [columns |-> <<>>, rows |-> <<>>]

----------------------------------------------------------------------------
(* Inputs of the handler.                                                  *)

\* cells of the second (authoritative) header row
HdrCells ==
    {Text(MANUFACTURE_NAME), Text(STATE_NAME), Text(MANUFACTURE_ZIP_CODE \o <<" ">>), NaN}

\* the first row: legacy labels, with blanks around them
AuxRow(n) == [j \in 1..n |-> Text(<<" ", "U">> \o Decimal(j - 1) \o <<" ">>)]

DataVals ==
    <<Text(Rep("A", 9)), NaN, Text(<<"1", "2", "3", "4", "5", "6", "\n">>),
      Num(<<"1", "2", "3", "4", "5", "6">>), Text(<<"1", "2", "3", "4", "5">>)>>

\* a data row of n cells: DataVals from position s on, cyclically
DataRow(s, n) == [j \in 1..n |-> DataVals[((j - 1 + s) % Len(DataVals)) + 1]]

\* k data rows of n cells, the first one starting at position s
DataBlock(s, k, n) == [r \in 1..k |-> DataRow(s + r - 1, n)]

DataBlocks(n) == {DataBlock(s, k, n) : s \in 0..(Len(DataVals) - 1), k \in 0..MaxDataRows}

\* the end-to-end scenario of the specification
ScenarioGrid ==
    << <<Text(<<>>), Text(<<>>), Text(STATE_NAME)>>,
       <<Text(MANUFACTURE_NAME), Text(MANUFACTURE_ADDRESS), Text(STATE_NAME)>>,
       <<Text(Rep("A", 150)), Text(Rep("B", 10)), Text(<<"T", "X">>)>> >>

HawbInputs ==
    {<<>>, ScenarioGrid}
    \cup UNION {
        {<<AuxRow(n)>>}
        \cup {<<AuxRow(n), h>> \o d :
                h \in [1..n -> HdrCells], d \in DataBlocks(n)}
        : n \in 1..MaxCols}

CfgFields == {"bw_idx", "bx_idx", "bz_idx", "coo_idx", "zip_idx", "unnamed_state_idx"}

\* the defaults, or one index typed in by the user
ConfigSet ==
    {DefaultCfg} \cup {[DefaultCfg EXCEPT ![f] = i] : f \in CfgFields, i \in {0, 1}}

OTHER_COLUMN == <<"m", "a", "w", "b", "_", "n", "o">>

MawbHeaders ==
    {<<>>, <<OTHER_COLUMN>>, <<OTHER_COLUMN, CONSIGNEE_ID_NUMBER \o <<" ">>>>}

MawbRow(n, r) == [j \in 1..n |-> Num(Decimal(10 * r + j))]

\* a sheet without header row has no data rows either
MawbInputs ==
    {[columns |-> h, rows |-> [r \in 1..k |-> MawbRow(Len(h), r)]] :
        h \in MawbHeaders, k \in 0..MaxDataRows}
    \ {m \in [columns : {<<>>}, rows : UNION {[1..k -> {<<>>}] : k \in 1..MaxDataRows}] : TRUE}

SheetNameSets == SUBSET {"hawb", "mawb"}

----------------------------------------------------------------------------
(* The Process handler, step by step.                                      *)

IdleProc ==
    /\ pc = "idle"
    /\ err = "none"
    /\ cfg = DefaultCfg
    /\ sheet_names = {}
    /\ hawb_raw = <<>>
    /\ cols = NoCols
    /\ data_ordered = <<>>
    /\ drop_col_indices = <<>>
    /\ hawb_out = <<>>
    /\ mawb_in = NoFrame
    /\ df_mawb = NoFrame
    /\ out_buf = <<>>

IdleFn == fn = "none" /\ fn_in = <<>> /\ fn_out = <<>>

Init == IdleProc /\ IdleFn /\ string_storage \in StringStorages

\* st.error(...) in the except branch
Fail(e) ==
    /\ pc' = "failed"
    /\ err' = e

\* st.error(...); st.stop()
Stop(e) ==
    /\ pc' = "stopped"
    /\ err' = e

\* the button is pressed with a file, a password and the six indices
Process ==
    /\ pc = "idle"
    /\ \E c \in ConfigSet : cfg' = c
    /\ pc' = "decrypt"
    /\ UNCHANGED <<err, string_storage, sheet_names, hawb_raw, cols, data_ordered,
                   drop_col_indices, hawb_out, mawb_in, df_mawb, out_buf, fnVars>>

Decrypt ==
    /\ pc = "decrypt"
    /\ \E ok \in BOOLEAN :
          IF ok THEN pc' = "load" /\ err' = err ELSE Fail("DecryptionFailure")
    /\ UNCHANGED <<cfg, string_storage, sheet_names, hawb_raw, cols, data_ordered,
                   drop_col_indices, hawb_out, mawb_in, df_mawb, out_buf, fnVars>>

LoadWorkbook ==
    /\ pc = "load"
    /\ \/ \E names \in SheetNameSets :
             /\ sheet_names' = names
             /\ pc' = "hawb"
             /\ err' = err
       \/ /\ Fail("ContainerFormatError")
          /\ sheet_names' = sheet_names
    /\ UNCHANGED <<cfg, string_storage, hawb_raw, cols, data_ordered,
                   drop_col_indices, hawb_out, mawb_in, df_mawb, out_buf, fnVars>>

CheckHawb ==
    /\ pc = "hawb"
    /\ IF SheetMissing("hawb", sheet_names)
       THEN Stop("MissingSheet hawb") /\ hawb_raw' = hawb_raw
       ELSE /\ \E g \in HawbInputs : hawb_raw' = g
            /\ pc' = "rows"
            /\ err' = err
    /\ UNCHANGED <<cfg, string_storage, sheet_names, cols, data_ordered,
                   drop_col_indices, hawb_out, mawb_in, df_mawb, out_buf, fnVars>>

CheckRows ==
    /\ pc = "rows"
    /\ IF TooFewRows(hawb_raw)
       THEN Stop("TooFewRows")
       ELSE pc' = "transform" /\ err' = err
    /\ UNCHANGED <<cfg, string_storage, sheet_names, hawb_raw, cols, data_ordered,
                   drop_col_indices, hawb_out, mawb_in, df_mawb, out_buf, fnVars>>

TransformHawb ==
    /\ pc = "transform"
    /\ LET header_row == hawb_raw[2]
           ordered_cols == Headers(header_row)
           data == SubSeq(hawb_raw, 3, Len(hawb_raw))
           c == ResolveCols(header_row, cfg)
           ruled == ApplyRules(data, ordered_cols, c, string_storage)
           drop == DropColIndices(ordered_cols, cfg.unnamed_state_idx)
       IN  /\ cols' = c
           /\ IF DuplicateLabels(ordered_cols)
              THEN /\ Fail("Exception")
                   /\ UNCHANGED <<data_ordered, drop_col_indices, hawb_out>>
              ELSE /\ data_ordered' = ruled
                   /\ drop_col_indices' = drop
                   /\ hawb_out' = DropColumns(
                                     Concat(SubSeq(hawb_raw, 1, 2), ruled, Len(ordered_cols)),
                                     drop)
                   /\ pc' = "mawb"
                   /\ err' = err
    /\ UNCHANGED <<cfg, string_storage, sheet_names, hawb_raw, mawb_in, df_mawb,
                   out_buf, fnVars>>

CheckMawb ==
    /\ pc = "mawb"
    /\ IF SheetMissing("mawb", sheet_names)
       THEN Stop("MissingSheet mawb")
       ELSE pc' = "edit" /\ err' = err
    /\ UNCHANGED <<cfg, string_storage, sheet_names, hawb_raw, cols, data_ordered,
                   drop_col_indices, hawb_out, mawb_in, df_mawb, out_buf, fnVars>>

\* the sheet is read, its labels are stripped and L2 is set
SetL2 ==
    /\ pc = "edit"
    /\ \E m \in MawbInputs :
          /\ mawb_in' = m
          /\ df_mawb' = SetCellAt(ReadMawb(m))
    /\ pc' = "write"
    /\ UNCHANGED <<err, cfg, string_storage, sheet_names, hawb_raw, cols, data_ordered,
                   drop_col_indices, hawb_out, out_buf, fnVars>>

WriteOutput ==
    /\ pc = "write"
    /\ out_buf' = <<[hawb |-> hawb_out, mawb |-> df_mawb]>>
    /\ pc' = "done"
    /\ UNCHANGED <<err, cfg, string_storage, sheet_names, hawb_raw, cols, data_ordered,
                   drop_col_indices, hawb_out, mawb_in, df_mawb, fnVars>>

Next ==
    \/ Process
    \/ Decrypt
    \/ LoadWorkbook
    \/ CheckHawb
    \/ CheckRows
    \/ TransformHawb
    \/ CheckMawb
    \/ SetL2
    \/ WriteOutput

Spec == Init /\ [][Next]_vars

----------------------------------------------------------------------------
(* The resolver on its own: every header row, candidate list and fallback  *)
(* index of a bounded family.                                              *)

ResolverHdrCells ==
    {Text(STATE_NAME), Text(<<" ", "s", "t", "a", "t", "e">>),
     Text(UNNAMED_LITERAL \o <<"1">>), NaN}

ResolverCandidates ==
    {STATE_NAME \o <<" ">>, UNNAMED_PREFIX \o <<" ", "0", "1">>,
     UNNAMED_PREFIX \o <<"0">>, <<"N", "a", "N">>}

ResolverInputs ==
    [header_row : UNION {[1..k -> ResolverHdrCells] : k \in 0..MaxHdr},
     candidates : UNION {[1..k -> ResolverCandidates] : k \in 0..MaxCand},
     index_fallback : {NoFallback} \cup 0..MaxFallback]

InitResolve ==
    /\ IdleProc
    /\ string_storage = "python"
    /\ fn = "none"
    /\ fn_in \in ResolverInputs
    /\ fn_out = <<>>

Resolve ==
    /\ fn = "none"
    /\ fn' = "get_col_by_header_row"
    /\ fn_out' = <<get_col_by_header_row(fn_in.header_row, fn_in.candidates,
                                         fn_in.index_fallback)>>
    /\ UNCHANGED <<fn_in, string_storage, procVars>>

NextResolve == Resolve

SpecResolve == InitResolve /\ [][NextResolve]_vars

----------------------------------------------------------------------------
(* The per-cell rules on their own.                                        *)

CellInputs ==
    {NaN, Text(<<>>), Text(<<" ", "\t">>),
     Text(<<"1", "2", "3", "4", "5", "6">>), Text(<<"0", "0", "0", "0", "0", "1">>),
     Text(<<"1", "2", "3", "4", "5">>), Text(<<"1", "2", "3", "4", "5", "6", "7">>),
     Text(<<"a", "b", "c", "d", "e", "f">>), Text(<<"1", "2", "3", "4", "5", "6", "\n">>),
     Text(<<" ", "1", "2", "3", "4", "5", "6">>),
     Num(<<"1", "2", "3", "4", "5", "6">>), Num(<<"1", "2", "3", "4", "5", "6", "7", "8", "9">>),
     Text(Rep("A", 8)), Text(Rep("A", 9)),
     Text(Rep("A", 100)), Text(Rep("A", 50) \o Rep("B", 51)),
     Text(Rep("A", 225)), Text(Rep("A", 113) \o Rep("B", 113))}

Thresholds == {BW_THRESHOLD, BX_THRESHOLD, BZ_THRESHOLD}

InitCell ==
    /\ IdleProc
    /\ string_storage \in StringStorages
    /\ fn = "none"
    /\ fn_in \in [cell : CellInputs, threshold : Thresholds]
    /\ fn_out = <<>>

Truncate ==
    /\ fn = "none"
    /\ fn' = "truncate_half_if_over"
    /\ fn_out' = <<truncate_half_if_over(fn_in.cell, fn_in.threshold)>>
    /\ UNCHANGED <<fn_in, string_storage, procVars>>

ZipRule ==
    /\ fn = "none"
    /\ fn' = "zip"
    /\ fn_out' = <<ZipCell(fn_in.cell, string_storage)>>
    /\ UNCHANGED <<fn_in, string_storage, procVars>>

NextCell == Truncate \/ ZipRule

SpecCell == InitCell /\ [][NextCell]_vars

----------------------------------------------------------------------------
(* Properties.                                                             *)

Min(S) == CHOOSE x \in S : \A y \in S : x <= y

\* the numbers N for which s reads "unnamed:", blanks, then N in decimal
\* digits (leading zeros allowed)
PlaceholderNumbers(s) ==
    LET k == Len(UNNAMED_PREFIX)
    IN  IF Len(s) <= k \/ SubSeq(s, 1, k) # UNNAMED_PREFIX THEN {}
        ELSE {N \in 0..20 :
                \E g \in 0..(Len(s) - k), z \in 0..(Len(s) - k) :
                    /\ Len(s) = k + g + z + Len(Decimal(N))
                    /\ \A p \in 1..g : s[k + p] \in WS
                    /\ \A p \in 1..z : s[k + g + p] = "0"
                    /\ SubSeq(s, k + g + z + 1, Len(s)) = Decimal(N)}

\* the trimmed text of the header cells
TrimmedHeaders(header_row) == [i \in 1..Len(header_row) |-> Strip(header_row[i].v)]

\* the candidates some trimmed header equals exactly
ExactCandidates(in) ==
    {i \in 1..Len(in.candidates) :
        InSeq(Strip(in.candidates[i]), TrimmedHeaders(in.header_row))}

\* the column the chain exact -> normalized -> placeholder -> fallback gives
ChainChoice(in) ==
    LET T == TrimmedHeaders(in.header_row)
        C == in.candidates
        F == in.index_fallback
        exactIdx == ExactCandidates(in)
        fuzzyIdx == {j \in 1..Len(T) : \E i \in 1..Len(C) : norm(T[j]) = norm(C[i])}
        Literal(N) == UNNAMED_LITERAL \o Decimal(N)
        Hits(i) == {N \in PlaceholderNumbers(Lower(Strip(C[i]))) :
                       InSeq(Literal(N), T) \/ N < Len(T)}
        phIdx == {i \in 1..Len(C) : Hits(i) # {}}
    IN  IF exactIdx # {} THEN Strip(C[Min(exactIdx)])
        ELSE IF fuzzyIdx # {} THEN T[Min(fuzzyIdx)]
        ELSE IF phIdx # {}
             THEN LET N == Min(Hits(Min(phIdx)))
                  IN  IF InSeq(Literal(N), T) THEN Literal(N) ELSE T[N + 1]
        ELSE IF F # NoFallback /\ 0 <= F /\ F < Len(T) THEN T[F + 1]
        ELSE NoneCol

\* C1: the resolver returns the column of the first strategy that matches in
\* the chain exact (candidate order) -> normalized (header order) ->
\* 'unnamed: N' placeholder (literal text, else position N) -> fallback index,
\* and None when none matches; a header exactly equal to a trimmed candidate
\* wins over the fallback index and over a placeholder.
C1_ResolverChain ==
    fn = "get_col_by_header_row" =>
        /\ fn_out[1] = ChainChoice(fn_in)
        /\ ExactCandidates(fn_in) # {} =>
              /\ InSeq(fn_out[1], TrimmedHeaders(fn_in.header_row))
              /\ \E i \in 1..Len(fn_in.candidates) : fn_out[1] = Strip(fn_in.candidates[i])

\* an exact match was returned although the fallback index is in range and
\* points at a column with another name
C1_Witness ==
    /\ fn = "get_col_by_header_row"
    /\ ExactCandidates(fn_in) # {}
    /\ fn_in.index_fallback # NoFallback
    /\ fn_in.index_fallback < Len(fn_in.header_row)
    /\ TrimmedHeaders(fn_in.header_row)[fn_in.index_fallback + 1] # fn_out[1]
    /\ fn_out[1] = STATE_NAME

\* the 'hawb' sheet has been transformed and reassembled
HawbDone == hawb_out # <<>>

\* the number of dropped positions below position j (0-based)
DroppedBelow(j) == Cardinality({q \in Range(drop_col_indices) : q < j})

\* C2: with distinct names in the second row of an n-column 'hawb' sheet, the
\* output grid has n minus the number of dropped columns, and every data cell
\* under a kept header column j is the rule-transformed input cell (row, j);
\* in the scenario of the specification the output has 2 columns, the data
\* row's first cell has 75 characters and its second cell is unchanged.
C2_Reassembly ==
    HawbDone =>
        LET n == Len(hawb_raw[2])
            d == Len(drop_col_indices)
        IN  /\ \A r \in 1..Len(hawb_out) : Len(hawb_out[r]) = n - d
            /\ \A i \in 1..Len(data_ordered), j \in 1..n :
                  (j - 1) \notin Range(drop_col_indices) =>
                      hawb_out[2 + i][j - DroppedBelow(j - 1)] = data_ordered[i][j]
            /\ (hawb_raw = ScenarioGrid /\ cfg = DefaultCfg) =>
                  /\ Len(hawb_out[3]) = 2
                  /\ Len(hawb_out[3][1].v) = 75
                  /\ hawb_out[3][2] = hawb_raw[3][2]

\* the cells of row at the positions that are not dropped, in order
RECURSIVE Without(_, _, _)
Without(row, dropped, j) ==
    IF j > Len(row) THEN <<>>
    ELSE (IF (j - 1) \in dropped THEN <<>> ELSE <<row[j]>>) \o Without(row, dropped, j + 1)

\* C3: the drop step removes exactly one column from every row, header rows
\* and data rows alike, whatever the header row and the STATE fallback index:
\* each row leaves the step one cell shorter than it entered it.
C3_DropsExactlyOne ==
    HawbDone =>
        LET before == Concat(SubSeq(hawb_raw, 1, 2), data_ordered, Len(hawb_raw[2]))
        IN  /\ Len(drop_col_indices) = 1
            /\ \A r \in 1..Len(hawb_out) : Len(hawb_out[r]) = Len(before[r]) - 1

\* C4: output bytes exist only in runs without a fatal condition (decryption
\* failure, unparseable container, 'hawb' or 'mawb' absent, too few header
\* rows), and a run in which one occurred has produced no output.
C4_NoOutputOnFatal ==
    /\ out_buf # <<>> =>
          /\ err = "none"
          /\ pc = "done"
          /\ "hawb" \in sheet_names
          /\ "mawb" \in sheet_names
          /\ Len(hawb_raw) >= 2
    /\ (err # "none" \/ pc \in {"failed", "stopped"}) => out_buf = <<>>

\* the run stopped on the missing 'mawb' sheet after 'hawb' was transformed,
\* and nothing was written
C4_Witness ==
    /\ pc = "stopped"
    /\ err = "MissingSheet mawb"
    /\ hawb_out # <<>>
    /\ out_buf = <<>>

\* the 'hawb' sheet has been read and its row count checked
RowCheckDone == "hawb" \in sheet_names /\ pc \notin {"hawb", "rows"}

\* C5: processing stops on the row count exactly when the 'hawb' sheet has
\* fewer than 2 rows; a sheet of exactly 2 rows is accepted.
C5_StopsBelowTwoRows ==
    RowCheckDone => (err = "TooFewRows" <=> Len(hawb_raw) < 2)

\* C5 (amended): processing stops on the row count exactly when the 'hawb'
\* sheet has fewer than 3 rows: a sheet of exactly 2 rows (both header rows,
\* no data row) is rejected like one of 0 or 1 rows, and a sheet of 3 or more
\* rows passes the check.
C5_StopsBelowThreeRows ==
    RowCheckDone => (err = "TooFewRows" <=> Len(hawb_raw) < 3)

\* a sheet of exactly two rows was rejected
C5_Witness ==
    /\ pc = "stopped"
    /\ err = "TooFewRows"
    /\ Len(hawb_raw) = 2

\* C6: the zip rule leaves a cell unchanged if and only if its text is
\* exactly six decimal digits, and replaces every other cell (missing, blank,
\* wrong length, non-digits) with "123456".
C6_ZipRule ==
    fn = "zip" =>
        LET c == fn_in.cell
            out == fn_out[1]
        IN  IF c.t # "nan" /\ Len(c.v) = 6 /\ \A i \in 1..6 : c.v[i] \in DigitSet
            THEN out.t = "text" /\ out.v = c.v
            ELSE out = Text(<<"1", "2", "3", "4", "5", "6">>)

\* C7: truncation returns the first floor(length/2) characters of a text
\* longer than the threshold and the cell itself in every other case (text
\* of length <= threshold, number, missing); with threshold 100 a text of 101
\* characters becomes its first 50 and a text of 100 characters is unchanged.
C7_TruncateHalf ==
    fn = "truncate_half_if_over" =>
        LET c == fn_in.cell
            thr == fn_in.threshold
            out == fn_out[1]
        IN  /\ IF c.t = "text" /\ Len(c.v) > thr
               THEN /\ out.t = "text"
                    /\ 2 * Len(out.v) <= Len(c.v)
                    /\ Len(c.v) <= 2 * Len(out.v) + 1
                    /\ \A i \in 1..Len(out.v) : out.v[i] = c.v[i]
               ELSE out = c
            /\ (c.t = "text" /\ thr = 100 /\ Len(c.v) = 101) => Len(out.v) = 50
            /\ (c.t = "text" /\ thr = 100 /\ Len(c.v) = 100) => out = c

\* a text of 101 characters was cut to its first 50 under threshold 100
C7_Witness ==
    /\ fn = "truncate_half_if_over"
    /\ fn_in.threshold = 100
    /\ fn_in.cell.t = "text"
    /\ Len(fn_in.cell.v) = 101
    /\ fn_out[1] = Text(Rep("A", 50))

\* the 'mawb' sheet has been edited
MawbEdited == pc \in {"write", "done"}

\* C8: after the 'mawb' edit the column 'consignee_id_number' exists and its
\* cell in data row 0 is "2567704", whatever the sheet held: a sheet of zero
\* data rows has exactly one afterwards and a sheet of k >= 1 rows still has k.
C8_SetCellAt ==
    MawbEdited =>
        LET k == Len(mawb_in.rows)
            at == {j \in 1..Len(df_mawb.columns) :
                      df_mawb.columns[j] = CONSIGNEE_ID_NUMBER}
        IN  /\ at # {}
            /\ Len(df_mawb.rows) = (IF k = 0 THEN 1 ELSE k)
            /\ \A j \in at :
                  df_mawb.rows[1][j] = Text(<<"2", "5", "6", "7", "7", "0", "4">>)

\* a sheet that has the column but no data row got its one row
C8_Witness ==
    /\ pc = "done"
    /\ Len(mawb_in.columns) = 2
    /\ Len(mawb_in.rows) = 0
    /\ Len(df_mawb.rows) = 1

\* C9: rows 0 and 1 of 'hawb' appear in the output with no cell modified by
\* the per-row rules: an output header row differs from its input row by the
\* removal of the dropped column's cell only.
C9_HeaderRowsVerbatim ==
    HawbDone =>
        \A r \in 1..2 : hawb_out[r] = Without(hawb_raw[r], Range(drop_col_indices), 1)

\* the transformation of 'hawb' has been attempted
TransformAttempted == pc \notin {"idle", "decrypt", "load", "hawb", "rows", "transform"}
                      /\ Len(hawb_raw) >= 3

\* the columns whose trimmed header repeats the header of an earlier column
LaterDuplicates ==
    LET T == TrimmedHeaders(hawb_raw[2])
    IN  {j \in 1..Len(T) : \E i \in 1..(j - 1) : T[i] = T[j]}

\* C10: when the second row repeats a name (several blank headers included),
\* processing completes without error and a rule that resolves to the name
\* acts on its first occurrence only: the data cells of the later columns of
\* that name are unchanged.
C10_DuplicateHeaders ==
    (TransformAttempted /\ LaterDuplicates # {}) =>
        /\ pc # "failed"
        /\ \A i \in 1..Len(data_ordered), j \in LaterDuplicates :
              data_ordered[i][j] = hawb_raw[2 + i][j]

====
